---- MODULE Spec2Model ----
(***************************************************************************)
(* Device identity and authentication gate of the weight tracker           *)
(* (src/main.py): the "devices" registry kept in the Firebase backend, the *)
(* per-browser st.session_state, and the passes of main() that Streamlit   *)
(* runs on every interaction.  A pass is split into one step per backend   *)
(* round trip (ref.get / ref.set), because that is where passes of         *)
(* different sessions interleave.                                          *)
(***************************************************************************)
EXTENDS Integers, Sequences, FiniteSets, TLC

VARIABLES
    devices,        \* value stored under db.reference("devices"): device_id -> registration
    clock,          \* datetime.now(), as a logical clock
    session_state,  \* st.session_state of every session: a mapping key -> value
    pc,             \* position of every session inside its current pass of main()
    form,           \* widget values of the pass: button pressed, selectbox, text_input
    local,          \* the local variable `devices` of a running register_device
    result,         \* the last value returned by register_device / authenticate
    screen,         \* what the pass has rendered: form shown, messages, uncaught fault
    call,           \* the last direct call of a function (function-level harness)
    records,        \* the weight records stored in the backend, per role
    app             \* the locals of a running logged-in page: its stores, its editor

vars == <<devices, clock, session_state, pc, form, local, result, screen, call,
          records, app>>

(***************************************************************************)
(* Bounds and the fixed sets of the model                                  *)
(***************************************************************************)
MaxClock == 3
\* weight records in the backend, all roles together
MaxRecords == 3
\* length of the record sequences the date-range filter is applied to
MaxLen == 3

Sessions == {"s1", "s2"}
DeviceIds == {"D1", "D2"}
\* st.secrets["app"]["user_type"]: the fixed two-element list of roles
Roles == {"A", "B"}
\* the same list in its order: user_type[0], user_type[1] (lines 210-211)
RoleList == <<"A", "B">>
\* the dates a record can carry
Days == {1, 2, 3}
\* the (start_date, end_date) pairs DateRangeSelector can return
DateRanges == Days \X Days
Passwords == {"p1", "p2"}

\* Python's None
None == "None"
\* the empty dict {} (also what `ref.get() or {}` yields when nothing is stored)
EmptyDict == [k \in {} |-> None]

NoForm == [button |-> "none", user_type |-> None, password |-> None]
NoResult == [fn |-> "none", ret |-> FALSE]
NoCall == [fn |-> "none"]
BlankScreen == [page |-> "none", msgs |-> <<>>, raised |-> FALSE]
\* a pass that has created no WeightDatabase and built no editor
NoApp == [stores |-> <<>>]

(***************************************************************************)
(* Pure functions of src/main.py                                           *)
(***************************************************************************)
\* hashlib.sha256(password.encode()).hexdigest(): a digest, never the password
\* itself, and distinct passwords have distinct digests
hash_pasword(password) == "sha256:" \o password

\* st.session_state as a mapping: `key in st.session_state`, and assignment
HasKey(ss, k) == k \in DOMAIN ss
SetKey(ss, k, v) == [x \in DOMAIN ss \cup {k} |-> IF x = k THEN v ELSE ss[x]]

\* faulty variant of verify_device: the lookup never finds the device
verify_device_absent(devs, device_id) == <<>>

\* devices.get(device_id) on the fetched registry: Optional[Dict], written as
\* <<>> for None and <<info>> for a registration
verify_device(devs, device_id) ==
    IF device_id \in DOMAIN devs THEN <<devs[device_id]>> ELSE <<>>

\* the condition of the loop at lines 96-97; line 98 is the bare expression
\* statement `False`, so register_device never acts on it
role_taken(devs, user_type) ==
    \E d \in DOMAIN devs : devs[d].user_type = user_type

\* faulty variant of new_registration: the password is stored as typed
new_registration_plaintext(user_type, password, now) ==
    [user_type |-> user_type, password |-> password, registerd_at |-> now]

\* the dict built at lines 100-104
new_registration(user_type, password, now) ==
    [user_type |-> user_type,
     password |-> hash_pasword(password),
     registerd_at |-> now]

\* faulty variant of register_device_update: a device that is registered
\* keeps its registration, as with dict.setdefault
register_device_update_keep(devs, device_id, user_type, password, now) ==
    [d \in DOMAIN devs \cup {device_id} |->
        IF d \in DOMAIN devs THEN devs[d]
        ELSE new_registration(user_type, password, now)]

\* devices[device_id] = {...} on the fetched copy: the value handed to ref.set
register_device_update(devs, device_id, user_type, password, now) ==
    [d \in DOMAIN devs \cup {device_id} |->
        IF d = device_id THEN new_registration(user_type, password, now)
        ELSE devs[d]]

\* faulty variant of password_matches: any password of a registered device
\* is accepted
password_matches_any(device_info, password) == device_info # <<>>

\* the condition of authenticate, on the result of verify_device
password_matches(device_info, password) ==
    /\ device_info # <<>>
    /\ device_info[1].password = hash_pasword(password)

\* init_session_state: defaults for the keys that are not there yet
init_session_state(ss) ==
    LET s1 == IF HasKey(ss, "logged_in") THEN ss ELSE SetKey(ss, "logged_in", FALSE)
    IN  IF HasKey(s1, "user_type") THEN s1 ELSE SetKey(s1, "user_type", None)

\* get_device_id: keeps the identifier of the session, generates one if absent
get_device_id(ss, fresh) ==
    IF HasKey(ss, "device_id") THEN ss ELSE SetKey(ss, "device_id", fresh)

\* faulty variant of logout: the role is not cleared
logout_keeps_role(ss) == SetKey(ss, "logged_in", FALSE)

\* faulty variant of logout: the login flag is not cleared
logout_keeps_flag(ss) == SetKey(ss, "user_type", None)

\* the logout branch of main (lines 237-238)
logout(ss) == SetKey(SetKey(ss, "logged_in", FALSE), "user_type", None)

(***************************************************************************)
(* The logged-in page: record stores and the editable list                 *)
(***************************************************************************)
\* WeightDatabase.add_record: a new record at the end of the role's list,
\* with the next id of that role
add_record(recs, timestamp) ==
    Append(recs, [id |-> Len(recs) + 1, timestamp |-> timestamp])

\* a list with one record put in at its place: after every record that is
\* not later than it
InsertByTimestamp(sorted, r) ==
    LET before == SelectSeq(sorted, LAMBDA x : x.timestamp <= r.timestamp)
        after == SelectSeq(sorted, LAMBDA x : x.timestamp > r.timestamp)
    IN  before \o <<r>> \o after

\* WeightDatabase.get_records() without bounds: the whole history of the
\* role, ascending by timestamp, ties in insertion order
RECURSIVE get_records(_)
get_records(recs) ==
    IF recs = <<>> THEN <<>>
    ELSE InsertByTimestamp(get_records(SubSeq(recs, 1, Len(recs) - 1)), recs[Len(recs)])

\* faulty variant of filter_range: the kept records come out last first
filter_range_reversed(recs, start_date, end_date) ==
    LET kept == SelectSeq(recs, LAMBDA r : start_date <= r.timestamp
                                            /\ r.timestamp <= end_date)
    IN  [i \in 1..Len(kept) |-> kept[Len(kept) + 1 - i]]

\* the list comprehension of lines 223-232:
\* [r for r in ... if start_date <= r.timestamp <= end_date]
filter_range(recs, start_date, end_date) ==
    SelectSeq(recs, LAMBDA r : start_date <= r.timestamp /\ r.timestamp <= end_date)

\* faulty variant of editor_source: the two stores are taken the other way round
editor_source_swapped(user_type) ==
    IF user_type = RoleList[1] THEN RoleList[2] ELSE RoleList[1]

\* lines 226-229: db1 if the session's role is user_type[0], else db2
editor_source(user_type) ==
    IF user_type = RoleList[1] THEN RoleList[1] ELSE RoleList[2]

(***************************************************************************)
(* Initial state: empty registry, sessions that have not run main() yet    *)
(***************************************************************************)
Init ==
    /\ devices = EmptyDict
    /\ clock = 0
    /\ session_state = [s \in Sessions |-> EmptyDict]
    /\ pc = [s \in Sessions |-> "idle"]
    /\ form = [s \in Sessions |-> NoForm]
    /\ local = [s \in Sessions |-> EmptyDict]
    /\ result = [s \in Sessions |-> NoResult]
    /\ screen = [s \in Sessions |-> BlankScreen]
    /\ call = NoCall
    /\ records = [r \in Roles |-> <<>>]
    /\ app = [s \in Sessions |-> NoApp]

\* identifiers uuid.uuid4() can still produce: never one already in use
FreshIds ==
    DeviceIds \ ({session_state[s].device_id :
                    s \in {x \in Sessions : HasKey(session_state[x], "device_id")}}
                 \cup DOMAIN devices)

\* what the user can submit, given the page the last pass rendered
Forms(page) ==
    {NoForm}
    \cup (IF page = "register"
          THEN {[button |-> "register", user_type |-> r, password |-> p] :
                    r \in Roles, p \in Passwords}
          ELSE {})
    \cup (IF page = "login"
          THEN {[button |-> "login", user_type |-> None, password |-> p] :
                    p \in Passwords}
          ELSE {})
    \cup (IF page = "app"
          THEN {[button |-> "logout", user_type |-> None, password |-> None]}
          ELSE {})

\* what the user can submit in the input form of the logged-in page
RecordForms(page) ==
    IF page = "app"
    THEN {[button |-> "add_record", timestamp |-> d] : d \in Days}
    ELSE {}

(***************************************************************************)
(* Passes of main().  A pass starts when the user interacts or when the    *)
(* script calls st.rerun(); it runs up to its next backend round trip.     *)
(***************************************************************************)
Page(p, msgs) == [page |-> p, msgs |-> msgs, raised |-> FALSE]
\* an exception that leaves main(): Streamlit shows it, the pass is over
Uncaught == [page |-> "none", msgs |-> <<>>, raised |-> TRUE]

\* login_page up to its call of verify_device (lines 139-145)
LoginPageEntry(s, ss, frm) ==
    \E id \in (IF HasKey(ss, "device_id") THEN {ss.device_id} ELSE FreshIds) :
        /\ session_state' = [session_state EXCEPT ![s] = get_device_id(ss, id)]
        /\ pc' = [pc EXCEPT ![s] = "login_page"]
        /\ form' = [form EXCEPT ![s] = frm]
        /\ screen' = [screen EXCEPT ![s] = BlankScreen]
        /\ app' = [app EXCEPT ![s] = NoApp]

\* faulty variant of AppPage: the page re-checks the registry and drops the
\* login of a device that is no longer registered
AppPage_expire(s, ss, frm) ==
    /\ session_state' = [session_state EXCEPT ![s] =
            IF ss.device_id \in DOMAIN devices THEN ss ELSE logout(ss)]
    /\ pc' = [pc EXCEPT ![s] = "app_page"]
    /\ form' = [form EXCEPT ![s] = frm]
    /\ screen' = [screen EXCEPT ![s] = BlankScreen]
    /\ app' = [app EXCEPT ![s] = NoApp]

\* main() of a logged-in session up to its first WeightDatabase (lines 192-196)
AppPage(s, ss, frm) ==
    /\ session_state' = [session_state EXCEPT ![s] = ss]
    /\ pc' = [pc EXCEPT ![s] = "app_page"]
    /\ form' = [form EXCEPT ![s] = frm]
    /\ screen' = [screen EXCEPT ![s] = BlankScreen]
    /\ app' = [app EXCEPT ![s] = NoApp]

\* faulty variant of MainPass: the login gate of lines 188-190 is missing, so
\* the page of a logged-in session is built in every pass
MainPass_no_return(s, ss0, frm) ==
    AppPage(s, init_session_state(ss0), frm)

\* main() entered with session state ss0 and the widget values frm
MainPass(s, ss0, frm) ==
    LET ss == init_session_state(ss0)
    IN  IF ~ss.logged_in
        THEN LoginPageEntry(s, ss, frm)
        ELSE AppPage(s, ss, frm)

\* the user loads the page, presses a button of it, or just reruns it
Interact(s) ==
    /\ pc[s] = "idle"
    /\ \E frm \in Forms(screen[s].page) : MainPass(s, session_state[s], frm)
    /\ UNCHANGED <<devices, clock, local, result, call, records>>

\* the user submits a record in the input form of the logged-in page
SubmitRecord(s) ==
    /\ pc[s] = "idle"
    /\ \E frm \in RecordForms(screen[s].page) : MainPass(s, session_state[s], frm)
    /\ UNCHANGED <<devices, clock, local, result, call, records>>

\* login_page from verify_device on (lines 145-163): which form is shown, and
\* whether its button is the one that was pressed
LoginPage(s) ==
    /\ pc[s] = "login_page"
    /\ \E ok \in BOOLEAN :
        IF ~ok
        THEN \* ref.get() raises inside verify_device: nothing catches it
             /\ pc' = [pc EXCEPT ![s] = "idle"]
             /\ form' = [form EXCEPT ![s] = NoForm]
             /\ screen' = [screen EXCEPT ![s] = Uncaught]
        ELSE LET info == verify_device(devices, session_state[s].device_id)
             IN  IF info = <<>>
                 THEN IF form[s].button = "register"
                      THEN /\ pc' = [pc EXCEPT ![s] = "register_device"]
                           /\ UNCHANGED <<form, screen>>
                      ELSE /\ pc' = [pc EXCEPT ![s] = "idle"]
                           /\ form' = [form EXCEPT ![s] = NoForm]
                           /\ screen' = [screen EXCEPT ![s] = Page("register", <<>>)]
                 ELSE IF form[s].button = "login"
                      THEN /\ pc' = [pc EXCEPT ![s] = "authenticate"]
                           /\ UNCHANGED <<form, screen>>
                      ELSE /\ pc' = [pc EXCEPT ![s] = "idle"]
                           /\ form' = [form EXCEPT ![s] = NoForm]
                           /\ screen' = [screen EXCEPT ![s] = Page("login", <<>>)]
    /\ UNCHANGED <<devices, clock, session_state, local, result, call, records, app>>

\* faulty variant of RegisterFailed: no try/except, the exception leaves main()
RegisterFailed_uncaught(s) ==
    /\ pc' = [pc EXCEPT ![s] = "idle"]
    /\ form' = [form EXCEPT ![s] = NoForm]
    /\ screen' = [screen EXCEPT ![s] = Uncaught]
    /\ local' = [local EXCEPT ![s] = EmptyDict]
    /\ UNCHANGED <<devices, clock, session_state, result, app>>

\* register_device failed: st.error in the except clause, return False, and
\* the st.error of login_page (lines 107-109, 156-157)
RegisterFailed(s) ==
    /\ result' = [result EXCEPT ![s] = [fn |-> "register_device", ret |-> FALSE]]
    /\ pc' = [pc EXCEPT ![s] = "idle"]
    /\ form' = [form EXCEPT ![s] = NoForm]
    /\ screen' = [screen EXCEPT ![s] =
                    Page("register", <<"device_registration_error",
                                       "device_registration_failed">>)]
    /\ local' = [local EXCEPT ![s] = EmptyDict]
    /\ UNCHANGED <<devices, clock, session_state, app>>

\* register_device, lines 92-98: fetch the whole registry
RegisterDeviceGet(s) ==
    /\ pc[s] = "register_device"
    /\ \E ok \in BOOLEAN :
        IF ok
        THEN /\ local' = [local EXCEPT ![s] = devices]
             /\ pc' = [pc EXCEPT ![s] = "ref_set"]
             /\ UNCHANGED <<devices, clock, session_state, form, result, screen, app>>
        ELSE RegisterFailed(s)
    /\ UNCHANGED <<call, records>>

\* faulty variant of RegisterSucceeded: the registration logs the session in
RegisterSucceeded_autologin(s) ==
    /\ result' = [result EXCEPT ![s] = [fn |-> "register_device", ret |-> TRUE]]
    /\ MainPass(s, SetKey(SetKey(session_state[s], "user_type", form[s].user_type),
                          "logged_in", TRUE), NoForm)

\* register_device returned True (line 106): st.success, then st.rerun(), and
\* main() runs again with the session state as it is (lines 153-155)
RegisterSucceeded(s) ==
    /\ result' = [result EXCEPT ![s] = [fn |-> "register_device", ret |-> TRUE]]
    /\ MainPass(s, session_state[s], NoForm)

\* faulty variant of RegisterDeviceSet: only the device's own key is written
\* into the stored registry, as with ref.child(device_id).set
RegisterDeviceSet_own_key(s) ==
    /\ pc[s] = "ref_set"
    /\ clock < MaxClock
    /\ \E ok \in BOOLEAN :
        IF ok
        THEN /\ devices' = register_device_update(devices, session_state[s].device_id,
                                form[s].user_type, form[s].password, clock + 1)
             /\ clock' = clock + 1
             /\ local' = [local EXCEPT ![s] = EmptyDict]
             /\ RegisterSucceeded(s)
        ELSE RegisterFailed(s)
    /\ UNCHANGED <<call, records>>

\* register_device, lines 100-106: write the whole registry back
RegisterDeviceSet(s) ==
    /\ pc[s] = "ref_set"
    /\ clock < MaxClock
    /\ \E ok \in BOOLEAN :
        IF ok
        THEN /\ devices' = register_device_update(local[s], session_state[s].device_id,
                                form[s].user_type, form[s].password, clock + 1)
             /\ clock' = clock + 1
             /\ local' = [local EXCEPT ![s] = EmptyDict]
             /\ RegisterSucceeded(s)
        ELSE RegisterFailed(s)
    /\ UNCHANGED <<call, records>>

\* faulty variant of login_error: an unknown device gets a message of its own
login_error_reveals(device_info) ==
    IF device_info = <<>> THEN "device_not_registered" ELSE "wrong_password"

\* the st.error of a refused login (line 169): one text, whatever
\* verify_device returned inside authenticate
login_error(device_info) == "wrong_password"

\* authenticate (lines 128-132) and the branch of login_page on its result
\* (lines 164-169)
Authenticate(s) ==
    /\ pc[s] = "authenticate"
    /\ \E ok \in BOOLEAN :
        IF ~ok
        THEN \* ref.get() raises inside verify_device: nothing catches it
             /\ pc' = [pc EXCEPT ![s] = "idle"]
             /\ form' = [form EXCEPT ![s] = NoForm]
             /\ screen' = [screen EXCEPT ![s] = Uncaught]
             /\ UNCHANGED <<session_state, result, app>>
        ELSE LET info == verify_device(devices, session_state[s].device_id)
             IN  IF password_matches(info, form[s].password)
                 THEN /\ result' = [result EXCEPT ![s] =
                                        [fn |-> "authenticate", ret |-> TRUE]]
                      /\ MainPass(s,
                            SetKey(SetKey(session_state[s], "user_type", info[1].user_type),
                                   "logged_in", TRUE),
                            NoForm)
                 ELSE /\ result' = [result EXCEPT ![s] =
                                        [fn |-> "authenticate", ret |-> FALSE]]
                      /\ pc' = [pc EXCEPT ![s] = "idle"]
                      /\ form' = [form EXCEPT ![s] = NoForm]
                      /\ screen' = [screen EXCEPT ![s] = Page("login", <<login_error(info)>>)]
                      /\ UNCHANGED <<session_state, app>>
    /\ UNCHANGED <<devices, clock, local, call, records>>

\* the number of weight records in the backend
TotalRecords == Len(records[RoleList[1]]) + Len(records[RoleList[2]])

\* the logged-in page, lines 196-219: the session's WeightDatabase and the
\* input form (which adds the submitted record), then the two stores whose
\* full histories are read for the chart
AppPageRender(s) ==
    /\ pc[s] = "app_page"
    /\ LET role == session_state[s].user_type
       IN  /\ IF form[s].button = "add_record"
              THEN /\ TotalRecords < MaxRecords
                   /\ records' = [records EXCEPT
                                    ![role] = add_record(@, form[s].timestamp)]
              ELSE UNCHANGED records
           /\ app' = [app EXCEPT ![s] = [stores |-> <<role, RoleList[1], RoleList[2]>>]]
    /\ pc' = [pc EXCEPT ![s] = "editor"]
    /\ UNCHANGED <<devices, clock, session_state, form, local, result, screen, call>>

\* the logged-in page, lines 222-234: the editor's store and its list of the
\* records inside the date range that DateRangeSelector returned
Editor(s) ==
    /\ pc[s] = "editor"
    /\ \E range \in DateRanges :
          LET start_date == range[1]
              end_date == range[2]
              role == session_state[s].user_type
              source == editor_source(role)
          IN  app' = [app EXCEPT ![s] =
                        [stores |-> Append(app[s].stores, role),
                         start_date |-> start_date,
                         end_date |-> end_date,
                         db |-> role,
                         source |-> source,
                         fetched |-> get_records(records[source]),
                         records |-> filter_range(get_records(records[source]),
                                                  start_date, end_date)]]
    /\ pc' = [pc EXCEPT ![s] = "logout_button"]
    /\ UNCHANGED <<devices, clock, session_state, form, local, result, screen, call,
                   records>>

\* the logged-in page, lines 236-239: the logout button clears the session
\* and reruns the script; otherwise main() returns, and with it the stores
\* and lists it had built
LogoutButton(s) ==
    /\ pc[s] = "logout_button"
    /\ IF form[s].button = "logout"
       THEN MainPass(s, logout(session_state[s]), NoForm)
       ELSE /\ app' = [app EXCEPT ![s] = NoApp]
            /\ pc' = [pc EXCEPT ![s] = "idle"]
            /\ form' = [form EXCEPT ![s] = NoForm]
            /\ screen' = [screen EXCEPT ![s] = Page("app", <<>>)]
            /\ UNCHANGED session_state
    /\ UNCHANGED <<devices, clock, local, result, call, records>>

Next ==
    \E s \in Sessions :
        \/ Interact(s)
        \/ LoginPage(s)
        \/ RegisterDeviceGet(s)
        \/ RegisterDeviceSet(s)
        \/ Authenticate(s)
        \/ AppPageRender(s)
        \/ Editor(s)
        \/ LogoutButton(s)

Spec == Init /\ [][Next]_vars

(***************************************************************************)
(* The logged-in page with records.  It starts where both devices are      *)
(* registered, one per role, and both sessions are at the password form (a *)
(* state of Spec); from there no registration runs any more, and the       *)
(* users also submit records.                                              *)
(***************************************************************************)
InitApp ==
    /\ devices = [d \in DeviceIds |->
                    IF d = "D1" THEN new_registration(RoleList[1], "p1", 1)
                    ELSE new_registration(RoleList[2], "p2", 2)]
    /\ clock = 2
    /\ session_state = [s \in Sessions |->
            [device_id |-> IF s = "s1" THEN "D1" ELSE "D2",
             logged_in |-> FALSE,
             user_type |-> None]]
    /\ pc = [s \in Sessions |-> "idle"]
    /\ form = [s \in Sessions |-> NoForm]
    /\ local = [s \in Sessions |-> EmptyDict]
    /\ result = [s \in Sessions |-> [fn |-> "register_device", ret |-> TRUE]]
    /\ screen = [s \in Sessions |-> Page("login", <<>>)]
    /\ call = NoCall
    /\ records = [r \in Roles |-> <<>>]
    /\ app = [s \in Sessions |-> NoApp]

NextApp ==
    \E s \in Sessions :
        \/ Interact(s)
        \/ SubmitRecord(s)
        \/ LoginPage(s)
        \/ Authenticate(s)
        \/ AppPageRender(s)
        \/ Editor(s)
        \/ LogoutButton(s)

SpecApp == InitApp /\ [][NextApp]_vars

(***************************************************************************)
(* Store level: register_device called directly, one call at a time, with  *)
(* any device_id (the contract of the function, outside the gate)          *)
(***************************************************************************)
\* register_device as one call (lines 91-109): the value it returns and the
\* registry it leaves, given whether ref.get() and ref.set() went through
register_device(devs, device_id, user_type, password, now, okGet, okSet) ==
    IF okGet /\ okSet
    THEN [ret |-> TRUE,
          devices |-> register_device_update(devs, device_id, user_type, password, now)]
    ELSE [ret |-> FALSE, devices |-> devs]

StoreRegisterDevice(device_id, user_type, password) ==
    /\ clock < MaxClock
    /\ \E okGet \in BOOLEAN, okSet \in BOOLEAN :
        LET out == register_device(devices, device_id, user_type, password,
                                   clock + 1, okGet, okSet)
        IN  /\ devices' = out.devices
            /\ clock' = IF okGet /\ okSet THEN clock + 1 ELSE clock
            /\ call' = [fn |-> "register_device", device_id |-> device_id,
                        user_type |-> user_type, password |-> password,
                        backend_ok |-> okGet /\ okSet,
                        ret |-> out.ret, before |-> devices]
    /\ UNCHANGED <<session_state, pc, form, local, result, screen, records, app>>

StoreNext ==
    \E d \in DeviceIds, r \in Roles, p \in Passwords : StoreRegisterDevice(d, r, p)

SpecStore == Init /\ [][StoreNext]_vars

(***************************************************************************)
(* Function level: the date-range filter applied to any record sequence    *)
(* and any bounds, and applied again to its own result                     *)
(***************************************************************************)
\* the record sequences of up to MaxLen records, ids in list order
RecordSeqs ==
    UNION {{[i \in 1..n |-> [id |-> i, timestamp |-> f[i]]] : f \in [1..n -> Days]} :
            n \in 0..MaxLen}

InitFilter ==
    /\ devices = EmptyDict
    /\ clock = 0
    /\ session_state = [s \in Sessions |-> EmptyDict]
    /\ pc = [s \in Sessions |-> "idle"]
    /\ form = [s \in Sessions |-> NoForm]
    /\ local = [s \in Sessions |-> EmptyDict]
    /\ result = [s \in Sessions |-> NoResult]
    /\ screen = [s \in Sessions |-> BlankScreen]
    /\ records = [r \in Roles |-> <<>>]
    /\ app = [s \in Sessions |-> NoApp]
    /\ \E rs \in RecordSeqs, range \in DateRanges :
          call = [fn |-> "filter_range", records |-> rs,
                  start_date |-> range[1], end_date |-> range[2],
                  applied |-> 0, out |-> <<>>, again |-> <<>>]

\* the filter on the input sequence
ApplyFilter ==
    /\ call.applied = 0
    /\ call' = [call EXCEPT
                  !.out = filter_range(call.records, call.start_date, call.end_date),
                  !.applied = 1]
    /\ UNCHANGED <<devices, clock, session_state, pc, form, local, result, screen,
                   records, app>>

\* the filter, with the same bounds, on the sequence it returned
ApplyFilterAgain ==
    /\ call.applied = 1
    /\ call' = [call EXCEPT
                  !.again = filter_range(call.out, call.start_date, call.end_date),
                  !.applied = 2]
    /\ UNCHANGED <<devices, clock, session_state, pc, form, local, result, screen,
                   records, app>>

FilterNext == ApplyFilter \/ ApplyFilterAgain

SpecFilter == InitFilter /\ [][FilterNext]_vars

(***************************************************************************)
(* Properties                                                              *)
(***************************************************************************)
LoggedIn(s) == HasKey(session_state[s], "logged_in") /\ session_state[s].logged_in
DeviceOf(s) == session_state[s].device_id
RoleOf(s) == session_state[s].user_type
\* the step in which the register_device of session s wrote and returned True
RegisterReturnsTrue(s) ==
    /\ pc[s] = "ref_set"
    /\ pc'[s] # "ref_set"
    /\ result'[s] = [fn |-> "register_device", ret |-> TRUE]
LastReturn(s, f, v) == result[s] = [fn |-> f, ret |-> v]

\* C1: at most one registration holds each role, in every reachable state of
\* the registry (a second registration for a taken role is rejected).
C1_OneRegistrationPerRole ==
    \A d1 \in DOMAIN devices, d2 \in DOMAIN devices :
        devices[d1].user_type = devices[d2].user_type => d1 = d2

\* C2: when register_device(device_id, role, password) returns True, then on
\* the registry it has just written authenticate accepts exactly that
\* password for device_id, and verify_device gives the registered role.
C2_RegisterThenAuthenticate ==
    [][\A s \in Sessions :
        RegisterReturnsTrue(s) =>
            LET info == verify_device(devices', DeviceOf(s))
            IN  /\ info # <<>>
                /\ info[1].user_type = form[s].user_type
                /\ \A q \in Passwords :
                      password_matches(info, q) <=> (q = form[s].password)]_vars

\* C2 witness: a session whose register_device returned True and whose
\* device is in the registry
C2_Witness ==
    \E s \in Sessions :
        /\ LastReturn(s, "register_device", TRUE)
        /\ DeviceOf(s) \in DOMAIN devices

AuthenticateReturns(s) ==
    /\ pc[s] = "authenticate"
    /\ pc'[s] # "authenticate"
    /\ ~screen'[s].raised
\* the digest of the submitted password equals the digest stored for the device
DigestMatches(s) ==
    /\ DeviceOf(s) \in DOMAIN devices
    /\ devices[DeviceOf(s)].password = hash_pasword(form[s].password)

\* C4: a password submitted in AwaitingPassword logs the session in with the
\* role stored for its device when the digests match; otherwise the session
\* stays logged out with role None, an error is shown and the registry is
\* unchanged.
C4_PasswordSubmit ==
    [][\A s \in Sessions :
        AuthenticateReturns(s) =>
            IF DigestMatches(s)
            THEN /\ session_state'[s].logged_in = TRUE
                 /\ session_state'[s].user_type = devices[DeviceOf(s)].user_type
                 /\ result'[s] = [fn |-> "authenticate", ret |-> TRUE]
            ELSE /\ session_state'[s].logged_in = FALSE
                 /\ session_state'[s].user_type = None
                 /\ result'[s] = [fn |-> "authenticate", ret |-> FALSE]
                 /\ screen'[s] = Page("login", <<"wrong_password">>)
                 /\ devices' = devices]_vars

\* C4 witness: one session logged in by its password, with the role of its
\* registration, while another was refused with the error shown
C4_Witness ==
    \E s \in Sessions, u \in Sessions :
        /\ LastReturn(s, "authenticate", TRUE)
        /\ LoggedIn(s)
        /\ DeviceOf(s) \in DOMAIN devices
        /\ RoleOf(s) = devices[DeviceOf(s)].user_type
        /\ LastReturn(u, "authenticate", FALSE)
        /\ screen[u] = Page("login", <<"wrong_password">>)

\* C5: a logout (the only step that takes a LoggedIn session to the login
\* page) sets the login flag to False and the role to None, and leaves the
\* registry unchanged; the login page never runs for a session whose flag is
\* True.
C5_Logout ==
    [][\A s \in Sessions :
        /\ (LoggedIn(s) /\ pc'[s] = "login_page") =>
              /\ session_state'[s].logged_in = FALSE
              /\ session_state'[s].user_type = None
              /\ session_state'[s].device_id = DeviceOf(s)
              /\ devices' = devices
        /\ (LoggedIn(s) /\ ~(session_state'[s].logged_in = TRUE)) =>
              pc'[s] = "login_page"]_vars

\* C5 witness: a session that logged in and is logged out again, at the login
\* gate
C5_Witness ==
    \E s \in Sessions :
        /\ LastReturn(s, "authenticate", TRUE)
        /\ ~LoggedIn(s)
        /\ RoleOf(s) = None
        /\ pc[s] = "login_page"

\* the step in which the register_device of session s lost its backend call:
\* the read did not deliver a registry, or the write did not land
RegisterBackendFails(s) ==
    \/ pc[s] = "register_device" /\ pc'[s] \notin {"register_device", "ref_set"}
    \/ pc[s] = "ref_set" /\ pc'[s] # "ref_set" /\ devices' = devices

\* C6: when the backend read or write of register_device fails, the call
\* returns False and nothing is raised, the registry keeps its content, and the
\* session stays logged out on the registration form with the errors shown.
C6_RegisterFailure ==
    [][\A s \in Sessions :
        RegisterBackendFails(s) =>
            /\ result'[s] = [fn |-> "register_device", ret |-> FALSE]
            /\ ~screen'[s].raised
            /\ devices' = devices
            /\ session_state'[s] = session_state[s]
            /\ ~LoggedIn(s)
            /\ DeviceOf(s) \notin DOMAIN devices'
            /\ screen'[s].page = "register"
            /\ screen'[s].msgs = <<"device_registration_error",
                                   "device_registration_failed">>]_vars

\* C6 witness: a failed registration on screen, after another session's
\* registration went through
C6_Witness ==
    \E s \in Sessions :
        /\ LastReturn(s, "register_device", FALSE)
        /\ screen[s].msgs = <<"device_registration_error", "device_registration_failed">>
        /\ pc[s] = "idle"
        /\ DOMAIN devices # {}

\* C7: no backend failure of the gate propagates out of main(): every pass
\* ends with a result and a message, never with an uncaught exception.
C7_NoFaultPropagates ==
    \A s \in Sessions : ~screen[s].raised

\* C8: a registration, once created, stays in the registry with the same
\* role and password digest in every later state.
C8_RegistrationIsPermanent ==
    [][\A d \in DOMAIN devices :
        /\ d \in DOMAIN devices'
        /\ devices'[d].user_type = devices[d].user_type
        /\ devices'[d].password = devices[d].password]_vars

\* the last direct call registered again a device that was registered, and
\* the backend served it
ReRegistered ==
    /\ call.fn = "register_device"
    /\ call.backend_ok
    /\ call.device_id \in DOMAIN call.before

C10_WriteOverwritesRegistry ==
    [][\A s \in Sessions :
        RegisterReturnsTrue(s) =>
            /\ DOMAIN devices' = DOMAIN local[s] \cup {DeviceOf(s)}
            /\ \A e \in DOMAIN local[s] \ {DeviceOf(s)} : devices'[e] = local[s][e]]_vars

\* C10 witness (the lost update): the register_device calls of two different
\* devices both returned True, and the registry holds only one of the two
C10_Witness ==
    \E s \in Sessions, u \in Sessions :
        /\ s # u
        /\ LastReturn(s, "register_device", TRUE)
        /\ LastReturn(u, "register_device", TRUE)
        /\ DeviceOf(s) # DeviceOf(u)
        /\ DeviceOf(s) \in DOMAIN devices
        /\ DeviceOf(u) \notin DOMAIN devices

\* the step in which session s presses the logout button of the app page
LogoutStep(s) ==
    /\ pc[s] = "logout_button"
    /\ form[s].button = "logout"
    /\ pc'[s] = "login_page"

\* C11: a LoggedIn session stays LoggedIn with the same role through every
\* step, its own and those of other sessions, whatever becomes of the
\* registry, except through its own explicit logout.
C11_NoSessionExpiry ==
    [][\A s \in Sessions :
        LoggedIn(s) =>
            \/ /\ session_state'[s].logged_in = TRUE
               /\ session_state'[s].user_type = RoleOf(s)
            \/ LogoutStep(s)]_vars

\* C11 witness: a session is still LoggedIn on its app page although its
\* registration has gone from the registry
C11_Witness ==
    \E s \in Sessions :
        /\ LoggedIn(s)
        /\ pc[s] = "idle"
        /\ screen[s].page = "app"
        /\ DeviceOf(s) \notin DOMAIN devices
        /\ DOMAIN devices # {}

\* C15: an authenticate that fails has one outcome, the same for a device
\* that is not registered as for a registered device with a wrong password:
\* it returns False, the session state and the registry are unchanged, and
\* the page shows the password form with the same error text.
C15_FailedLoginRevealsNothing ==
    [][\A s \in Sessions :
        (AuthenticateReturns(s) /\ ~DigestMatches(s)) =>
            /\ result'[s] = [fn |-> "authenticate", ret |-> FALSE]
            /\ session_state'[s] = session_state[s]
            /\ devices' = devices
            /\ screen'[s].page = "login"
            /\ screen'[s].msgs = <<"wrong_password">>]_vars

\* C15 witness: two sessions were refused and see the same page, one with
\* its device in the registry and one with its device gone from it
C15_Witness ==
    \E s \in Sessions, u \in Sessions :
        /\ LastReturn(s, "authenticate", FALSE)
        /\ LastReturn(u, "authenticate", FALSE)
        /\ screen[s].msgs = <<"wrong_password">>
        /\ screen[u] = screen[s]
        /\ DeviceOf(s) \in DOMAIN devices
        /\ DeviceOf(u) \notin DOMAIN devices

\* the step in which session s ran the lookup of login_page and it went through
LookupReturns(s) ==
    /\ pc[s] = "login_page"
    /\ pc'[s] # "login_page"
    /\ ~screen'[s].raised

\* C16: on the login page, registration is offered (or register_device
\* entered) exactly when the lookup of the session's device is absent, and
\* password entry is offered (or authenticate entered) exactly when it is
\* present; register_device and authenticate are entered from nowhere else.
C16_FormFollowsLookup ==
    [][\A s \in Sessions :
        /\ LookupReturns(s) =>
              IF DeviceOf(s) \notin DOMAIN devices
              THEN \/ pc'[s] = "register_device" /\ form[s].button = "register"
                   \/ pc'[s] = "idle" /\ screen'[s].page = "register"
              ELSE \/ pc'[s] = "authenticate" /\ form[s].button = "login"
                   \/ pc'[s] = "idle" /\ screen'[s].page = "login"
        /\ (pc'[s] = "register_device" /\ pc[s] # "register_device") =>
              LookupReturns(s) /\ DeviceOf(s) \notin DOMAIN devices
        /\ (pc'[s] = "authenticate" /\ pc[s] # "authenticate") =>
              LookupReturns(s) /\ DeviceOf(s) \in DOMAIN devices]_vars

\* C16 witness: one session is inside register_device after an absent
\* lookup while another is inside authenticate after a present one
C16_Witness ==
    \E s \in Sessions, u \in Sessions :
        /\ pc[s] = "register_device"
        /\ DeviceOf(s) \notin DOMAIN devices
        /\ pc[u] = "authenticate"
        /\ DeviceOf(u) \in DOMAIN devices

\* C17: the device identifier of a session never changes once generated,
\* and a session that registered, logged in and logged out is shown password
\* entry, never registration.
C17_DeviceIdResolvedOnce ==
    [][\A s \in Sessions :
        /\ HasKey(session_state[s], "device_id") =>
              session_state'[s].device_id = DeviceOf(s)
        /\ (LastReturn(s, "authenticate", TRUE) /\ ~LoggedIn(s)) =>
              screen'[s].page # "register"]_vars

\* C18: between passes of main(), the login flag of a session is True
\* exactly when its role is not None.
C18_FlagIffRole ==
    \A s \in Sessions :
        (pc[s] = "idle" /\ HasKey(session_state[s], "logged_in")) =>
            (session_state[s].logged_in <=> RoleOf(s) # None)

\* C18 witness: between passes, one session is logged in with a role and
\* another, which had logged in, is logged out with no role
C18_Witness ==
    \E s \in Sessions, u \in Sessions :
        /\ pc[s] = "idle" /\ LoggedIn(s) /\ RoleOf(s) \in Roles
        /\ pc[u] = "idle" /\ LastReturn(u, "authenticate", TRUE)
        /\ ~LoggedIn(u) /\ RoleOf(u) = None

\* C19: whenever a session is LoggedIn, the registry holds a registration
\* for its device and the role of that registration is the session's role.
C19_LoggedInIsRegistered ==
    \A s \in Sessions :
        LoggedIn(s) =>
            /\ DeviceOf(s) \in DOMAIN devices
            /\ devices[DeviceOf(s)].user_type = RoleOf(s)

InApp(s) == pc[s] \in {"app_page", "editor", "logout_button"}
Range(seq) == {seq[i] : i \in 1..Len(seq)}
InRange(r, start_date, end_date) ==
    start_date <= r.timestamp /\ r.timestamp <= end_date

\* C12: a session whose login flag is False never runs the logged-in page
\* and holds no WeightDatabase; stores are created, and records written,
\* only by the pass of a LoggedIn session.
C12_GateGuardsStores ==
    /\ [](\A s \in Sessions : ~LoggedIn(s) => (~InApp(s) /\ app[s] = NoApp))
    /\ [][/\ \A s \in Sessions :
                (app'[s] # app[s] /\ app'[s] # NoApp) => (LoggedIn(s) /\ InApp(s))
          /\ records' # records =>
                \E s \in Sessions :
                    /\ LoggedIn(s)
                    /\ pc[s] = "app_page"
                    /\ pc'[s] = "editor"
                    /\ \A r \in Roles \ {RoleOf(s)} : records'[r] = records[r]]_vars

\* C12 witness: records are stored and one session is building its page
\* with its stores, while the other, refused at the gate, holds none
C12_Witness ==
    \E s \in Sessions, u \in Sessions :
        /\ LoggedIn(s)
        /\ pc[s] = "logout_button"
        /\ Len(app[s].stores) = 4
        /\ TotalRecords > 0
        /\ ~LoggedIn(u)
        /\ LastReturn(u, "authenticate", FALSE)
        /\ pc[u] = "idle"
        /\ app[u] = NoApp

\* the step in which the page of session s builds its editor
EditorBuilds(s) == pc[s] = "editor" /\ pc'[s] = "logout_button"
\* the place of a record in a sequence that holds it once
PlaceIn(seq, r) == CHOOSE k \in 1..Len(seq) : seq[k] = r

\* C13: the list handed to the editor holds exactly the records of the
\* logged-in role's own store whose timestamp lies in [start_date, end_date],
\* both ends included, each once and in the order the store returned them;
\* no record of it comes from the other role, and the editor's store is the
\* store of the logged-in role.
C13_EditableList ==
    [][\A s \in Sessions :
        EditorBuilds(s) =>
            LET e == app'[s]
                own == records[RoleOf(s)]
                kept == {r \in Range(own) : InRange(r, e.start_date, e.end_date)}
            IN  /\ e.db = RoleOf(s)
                /\ e.source = RoleOf(s)
                /\ Range(e.fetched) = Range(own)
                /\ Range(e.records) = kept
                /\ Len(e.records) = Cardinality(kept)
                /\ \A i \in 1..Len(e.records), j \in 1..Len(e.records) :
                      i < j => PlaceIn(e.fetched, e.records[i])
                                  < PlaceIn(e.fetched, e.records[j])]_vars

\* C13 witness: the editor got some but not all of the own records, while
\* the other role's store holds a record inside the range that is not one
\* of them
C13_Witness ==
    \E s \in Sessions :
        /\ pc[s] = "logout_button"
        /\ app[s].records # <<>>
        /\ Len(app[s].records) < Len(records[RoleOf(s)])
        /\ \E o \in Roles \ {RoleOf(s)} :
              \E r \in Range(records[o]) :
                  /\ InRange(r, app[s].start_date, app[s].end_date)
                  /\ r \notin Range(records[RoleOf(s)])
                  /\ r \notin Range(app[s].records)

\* C14: filtering an already filtered sequence with the same bounds gives
\* the same sequence, and the kept records are records of the input in the
\* input's order.
C14_FilterIdempotent ==
    call.applied = 2 =>
        /\ call.again = call.out
        /\ \A i \in 1..Len(call.out) :
              /\ call.out[i].id \in 1..Len(call.records)
              /\ call.out[i] = call.records[call.out[i].id]
        /\ \A i \in 1..Len(call.out), j \in 1..Len(call.out) :
              i < j => call.out[i].id < call.out[j].id

\* C14 witness: a filter that dropped a record and kept two whose
\* timestamps are not ascending, applied twice
C14_Witness ==
    /\ call.applied = 2
    /\ Len(call.out) >= 2
    /\ Len(call.out) < Len(call.records)
    /\ call.out[1].timestamp > call.out[2].timestamp
====
